---- MODULE Spec2Model ----
(***************************************************************************)
(* Model of prepare_smbless.py: the build orchestrator that creates the    *)
(* build directory, compiles the privileged helper with swiftc, signs it   *)
(* with codesign and prints the manual integration instructions.           *)
(*                                                                         *)
(* The script is one sequential process.  Its state is the position in     *)
(* main()/run_command(), what it has printed, its exit status, and the     *)
(* part of the file system it touches.  The two external tools are the     *)
(* environment: each returns an arbitrary status and arbitrary text.       *)
(***************************************************************************)
EXTENDS Integers, Sequences, FiniteSets, TLC

(***************************************************************************)
(* Bounds of the model.                                                    *)
(***************************************************************************)
\* number of successive runs of the script over the same file system
MaxRuns == 2
\* the external tools return a status in 0..MaxRc
MaxRc == 2

(***************************************************************************)
(* Configuration, lines 13-18.                                             *)
(***************************************************************************)
HELPER_ID == "com.lowdata.helper"
TEAM_ID == "85QL287QYW"
HELPER_SOURCE == "LowDataHelper/main.swift"
BUILD_DIR == "build"

(***************************************************************************)
(* Text.  A printed line is the literal text of the print call and the     *)
(* value interpolated into it (a path, a tool's captured text) as a        *)
(* sequence of strings; <<>> when nothing is interpolated.                 *)
(***************************************************************************)
Msg(text, arg) == [text |-> text, arg |-> arg]

\* f"{d}/{name}": a path as the sequence of its interpolated parts
FmtPath(d, name) == <<d, "/", name>>

\* the path written bare in a command line (HELPER_SOURCE, BUILD_DIR)
Bare(p) == <<p>>

\* the directory part of a path: the part before the first "/"
Parent(p) == IF Len(p) >= 3 /\ p[2] = "/" THEN <<p[1]>> ELSE <<>>

\* line 44: helper_path = f"{BUILD_DIR}/{HELPER_ID}"
helper_path_nodir == Bare(HELPER_ID)
helper_path == FmtPath(BUILD_DIR, HELPER_ID)

(***************************************************************************)
(* The two command lines.  A command is the tool, the file it reads, the   *)
(* file it writes and its flags.                                           *)
(***************************************************************************)
Cmd(tool, input, target, flags) ==
    [tool |-> tool, input |-> input, target |-> target, flags |-> flags]

NoCmd == Cmd("none", <<>>, <<>>, <<>>)

\* line 40: "Developer ID Application: Konrad Michels ({TEAM_ID})"
SigningIdentity == <<"Developer ID Application: Konrad Michels (", TEAM_ID, ")">>

\* lines 40-41: codesign --force --sign "<identity>" --identifier {HELPER_ID}
\*              --options runtime {BUILD_DIR}/{HELPER_ID}
SignCmd ==
    Cmd("codesign", <<>>, FmtPath(BUILD_DIR, HELPER_ID),
        <<"--force", "--sign">> \o SigningIdentity
            \o <<"--identifier", HELPER_ID, "--options", "runtime">>)

\* line 36: swiftc {HELPER_SOURCE} -o {BUILD_DIR}/{HELPER_ID} -O
BuildCmdSwapped ==
    Cmd("swiftc", FmtPath(BUILD_DIR, HELPER_ID), Bare(HELPER_SOURCE), <<"-o", "-O">>)
BuildCmdPasted == SignCmd
BuildCmd ==
    Cmd("swiftc", Bare(HELPER_SOURCE), FmtPath(BUILD_DIR, HELPER_ID), <<"-o", "-O">>)

(***************************************************************************)
(* The file system: the paths the script names, and one it does not.       *)
(***************************************************************************)
BuildPath == Bare(BUILD_DIR)
ArtifactPath == FmtPath(BUILD_DIR, HELPER_ID)
SourcePath == Bare(HELPER_SOURCE)
OtherPath == Bare("elsewhere")
Paths == {BuildPath, ArtifactPath, SourcePath, OtherPath}

\* what is at a path
Kinds == {"absent", "dir", "file", "unsigned", "signed"}

Tools == {"swiftc", "codesign"}

\* text a tool can leave on its captured streams
StdoutTexts == {"", "out"}
StderrTexts == {"", "diag"}

VARIABLES
    pc,         \* position in main() / run_command()
    site,       \* the call of run_command being executed: "build", "sign"
    cmd,        \* run_command's argument
    result,     \* run_command's local: the CompletedProcess
    stdout,     \* lines the script has printed on standard output
    stderr,     \* what the process has written on standard error
    exitStatus, \* the exit status of the process (meaningful at pc = "done")
    fs,         \* the file system: Paths -> Kinds
    fs0,        \* the file system when the current run started
    spawned,    \* the commands handed to subprocess.run in this run
    status,     \* per tool, the statuses its invocations returned in this run
    trace,      \* the external effects of this run, in order
    run,        \* the number of the current run
    history     \* how each earlier run ended

vars == <<pc, site, cmd, result, stdout, stderr, exitStatus, fs, fs0,
          spawned, status, trace, run, history>>

Ev(ev, what) == [ev |-> ev, what |-> what]

NoResult == [returncode |-> 0, stdout |-> "", stderr |-> ""]

\* the state of a process that has just been started
Fresh ==
    /\ pc = "preparing"
    /\ site = "none"
    /\ cmd = NoCmd
    /\ result = NoResult
    /\ stdout = <<>>
    /\ stderr = <<>>
    /\ exitStatus = 0
    /\ spawned = <<>>
    /\ status = [t \in Tools |-> <<>>]
    /\ trace = <<>>

\* A file system the script can be started on: the source present or not,
\* and at the build path nothing, a directory (with or without an earlier
\* artifact) or something that is not a directory.
InitFs ==
    { f \in [Paths -> Kinds] :
        /\ f[OtherPath] = "file"
        /\ f[SourcePath] \in {"absent", "file"}
        /\ f[BuildPath] \in {"absent", "dir", "file"}
        /\ f[ArtifactPath] \in {"absent", "unsigned", "signed"}
        /\ f[ArtifactPath] # "absent" => f[BuildPath] = "dir" }

Init ==
    /\ Fresh
    /\ fs \in InitFs
    /\ fs0 = fs
    /\ run = 1
    /\ history = <<>>

(***************************************************************************)
(* main(), lines 28-56.                                                    *)
(***************************************************************************)
\* line 29
PrintPreparing ==
    /\ pc = "preparing"
    /\ stdout' = Append(stdout, Msg("Preparing helper tool for SMJobBless...", <<>>))
    /\ pc' = "makedirs"
    /\ UNCHANGED <<site, cmd, result, stderr, exitStatus, fs, fs0, spawned, status,
                   trace, run, history>>

\* os.makedirs(path, exist_ok=True) raises FileExistsError when the path is
\* there and is not a directory
MakedirsRaisesNoExistOk(kind) == kind # "absent"
MakedirsRaises(kind) == kind \notin {"absent", "dir"}

\* line 32.  An exception escapes main(): the interpreter writes the
\* traceback on standard error and the process exits with status 1.
Makedirs ==
    /\ pc = "makedirs"
    /\ IF MakedirsRaises(fs[BuildPath])
       THEN /\ stderr' = Append(stderr, Msg("Traceback (most recent call last):",
                                            <<"FileExistsError">>))
            /\ exitStatus' = 1
            /\ pc' = "done"
            /\ trace' = Append(trace, Ev("begin", "makedirs"))
            /\ UNCHANGED fs
       ELSE /\ fs' = [fs EXCEPT ![BuildPath] = "dir"]
            /\ pc' = "building"
            /\ trace' = trace \o <<Ev("begin", "makedirs"), Ev("end", "makedirs")>>
            /\ UNCHANGED <<stderr, exitStatus>>
    /\ UNCHANGED <<site, cmd, result, stdout, fs0, spawned, status, run, history>>

\* line 35, and the call of run_command on line 36
PrintBuilding ==
    /\ pc = "building"
    /\ stdout' = Append(stdout, Msg("Building helper tool...", <<>>))
    /\ site' = "build"
    /\ cmd' = BuildCmd
    /\ pc' = "run"
    /\ UNCHANGED <<result, stderr, exitStatus, fs, fs0, spawned, status, trace, run,
                   history>>

\* line 39, and the call of run_command on lines 40-41
PrintSigning ==
    /\ pc = "signing"
    /\ stdout' = Append(stdout, Msg("Signing helper...", <<>>))
    /\ site' = "sign"
    /\ cmd' = SignCmd
    /\ pc' = "run"
    /\ UNCHANGED <<result, stderr, exitStatus, fs, fs0, spawned, status, trace, run,
                   history>>

\* lines 49-56: the report
ReportLines ==
    << Msg("\nHelper tool prepared successfully!", <<>>),
       Msg("Helper location: ", helper_path),
       Msg("\nNext steps:", <<>>),
       Msg("1. In Xcode, add a 'Copy Files' build phase", <<>>),
       Msg("2. Set destination to 'Wrapper' with subpath 'Contents/Library/LaunchServices'",
           <<>>),
       Msg("3. Add {helper_path} to this build phase", helper_path),
       Msg("4. Build and run the app", <<>>),
       Msg("\nThe app will use SMJobBless to install the helper to /Library/PrivilegedHelperTools/",
           <<>>) >>

\* lines 44-56, then main() returns and the process ends with status 0
Report ==
    /\ pc = "report"
    /\ stdout' = stdout \o ReportLines
    /\ pc' = "done"
    /\ UNCHANGED <<site, cmd, result, stderr, exitStatus, fs, fs0, spawned, status,
                   trace, run, history>>

(***************************************************************************)
(* The external tools.  A tool that returns 0 has done its work on the     *)
(* file it was pointed at; a tool that returns non-zero has changed        *)
(* nothing.  Either way its status and captured text are arbitrary.        *)
(***************************************************************************)
ParentIsDir(p, f) == Parent(p) = <<>> \/ f[Parent(p)] = "dir"

\* swiftc needs its source and the directory of its output; codesign needs
\* the binary it is to sign
ToolCanSucceed(c, f) ==
    IF c.tool = "swiftc"
    THEN /\ f[c.input] \notin {"absent", "dir"}
         /\ ParentIsDir(c.target, f)
         /\ f[c.target] # "dir"
    ELSE f[c.target] \in {"unsigned", "signed"}

\* swiftc writes a fresh, unsigned binary at its -o path; codesign --force
\* signs the binary at its path in place
ToolEffect(c, f) ==
    [f EXCEPT ![c.target] = IF c.tool = "swiftc" THEN "unsigned" ELSE "signed"]

(***************************************************************************)
(* run_command(cmd), lines 20-26.                                          *)
(***************************************************************************)
\* line 22: subprocess.run starts the command ...
SubprocessRun ==
    /\ pc = "run"
    /\ spawned' = Append(spawned, cmd)
    /\ trace' = Append(trace, Ev("begin", cmd.tool))
    /\ pc' = "wait"
    /\ UNCHANGED <<site, cmd, result, stdout, stderr, exitStatus, fs, fs0, status, run,
                   history>>

\* ... and blocks until it has exited, capturing its status and its streams
ToolExit ==
    /\ pc = "wait"
    /\ \E rc \in 0..MaxRc, out \in StdoutTexts, err \in StderrTexts :
         /\ rc = 0 => ToolCanSucceed(cmd, fs)
         /\ fs' = IF rc = 0 THEN ToolEffect(cmd, fs) ELSE fs
         /\ result' = [returncode |-> rc, stdout |-> out, stderr |-> err]
         /\ status' = [status EXCEPT ![cmd.tool] = Append(@, rc)]
    /\ trace' = Append(trace, Ev("end", cmd.tool))
    /\ pc' = "check"
    /\ UNCHANGED <<site, cmd, stdout, stderr, exitStatus, fs0, spawned, run, history>>

\* line 23: if result.returncode != 0
FailedOnlyOne(r) == r.returncode = 1
Failed(r) == r.returncode # 0

\* line 24: print(f"Error: {result.stderr}")
ErrorMessageStdout(r) == Msg("Error: ", <<r.stdout>>)
ErrorMessage(r) == Msg("Error: ", <<r.stderr>>)

\* line 25: exit(1)
ExitCodePassThrough(r) == r.returncode
ExitCode(r) == 1

\* where main() continues after the call returns
ReturnTo(s) == IF s = "build" THEN "signing" ELSE "report"

\* lines 24-25: the failure branch
Fail ==
    /\ stdout' = Append(stdout, ErrorMessage(result))
    /\ exitStatus' = ExitCode(result)
    /\ pc' = "done"
    /\ UNCHANGED <<site, cmd, result, stderr, fs, fs0, spawned, status, trace, run,
                   history>>

\* line 26: return result.stdout.strip(); main() discards the value
Return ==
    /\ pc' = ReturnTo(site)
    /\ result' = NoResult
    /\ site' = "none"
    /\ cmd' = NoCmd
    /\ UNCHANGED <<stdout, stderr, exitStatus, fs, fs0, spawned, status, trace, run,
                   history>>

\* a failure branch that prints and forgets to exit
RunCommandCheckNoExit ==
    /\ pc = "check"
    /\ IF Failed(result)
       THEN /\ stdout' = Append(stdout, ErrorMessage(result))
            /\ pc' = ReturnTo(site)
            /\ result' = NoResult
            /\ site' = "none"
            /\ cmd' = NoCmd
            /\ UNCHANGED <<stderr, exitStatus, fs, fs0, spawned, status, trace, run,
                           history>>
       ELSE Return

\* a failure branch that runs the command a second time before giving up
RunCommandCheckRetry ==
    /\ pc = "check"
    /\ IF Failed(result)
       THEN IF Len(status[cmd.tool]) < 2
            THEN /\ pc' = "run"
                 /\ UNCHANGED <<site, cmd, result, stdout, stderr, exitStatus, fs, fs0,
                                spawned, status, trace, run, history>>
            ELSE Fail
       ELSE Return

\* a failure branch that removes the half-made artifact before exiting
RunCommandCheckCleanup ==
    /\ pc = "check"
    /\ IF Failed(result)
       THEN /\ stdout' = Append(stdout, ErrorMessage(result))
            /\ exitStatus' = ExitCode(result)
            /\ fs' = [fs EXCEPT ![ArtifactPath] = "absent"]
            /\ pc' = "done"
            /\ UNCHANGED <<site, cmd, result, stderr, fs0, spawned, status, trace, run,
                           history>>
       ELSE Return

\* lines 23-26
RunCommandCheck ==
    /\ pc = "check"
    /\ IF Failed(result) THEN Fail ELSE Return

(***************************************************************************)
(* Lines 58-59: the script is run again, on the file system the run        *)
(* before it left.                                                         *)
(***************************************************************************)
Outcome ==
    [made |-> \E i \in 1..Len(trace) : trace[i] = Ev("end", "makedirs"),
     exit |-> exitStatus]

NextRun ==
    /\ pc = "done"
    /\ run < MaxRuns
    /\ run' = run + 1
    /\ history' = Append(history, Outcome)
    /\ fs0' = fs
    /\ pc' = "preparing"
    /\ site' = "none"
    /\ cmd' = NoCmd
    /\ result' = NoResult
    /\ stdout' = <<>>
    /\ stderr' = <<>>
    /\ exitStatus' = 0
    /\ spawned' = <<>>
    /\ status' = [t \in Tools |-> <<>>]
    /\ trace' = <<>>
    /\ UNCHANGED fs

Next ==
    \/ PrintPreparing
    \/ Makedirs
    \/ PrintBuilding
    \/ SubprocessRun
    \/ ToolExit
    \/ RunCommandCheck
    \/ PrintSigning
    \/ Report
    \/ NextRun

Spec == Init /\ [][Next]_vars

\* Every step of the script is taken eventually: the interpreter runs the
\* statements in sequence, and each external invocation returns.
FairSpec == Spec /\ WF_vars(Next)

(***************************************************************************)
(* Vocabulary of the properties.                                           *)
(***************************************************************************)
Has(seq, x) == \E i \in 1..Len(seq) : seq[i] = x

IsPrefix(s, t) == Len(s) <= Len(t) /\ \A i \in 1..Len(s) : s[i] = t[i]

\* the tool was invoked in this run and returned a non-zero status
ToolFailed(t) == \E i \in 1..Len(status[t]) : status[t][i] # 0

\* the tool was invoked exactly once in this run and returned 0
ToolSucceeded(t) == status[t] = <<0>>

Exited == pc = "done"

PreparingText == "Preparing helper tool for SMJobBless..."
BuildingText == "Building helper tool..."
SigningText == "Signing helper..."
ProgressTexts == {PreparingText, BuildingText, SigningText}
SuccessText == "\nHelper tool prepared successfully!"

\* the positions of the "Error: ..." lines on standard output
ErrorLines == {i \in 1..Len(stdout) : stdout[i].text = "Error: "}

\* some line of the success report is on standard output
ReportPrinted == \E i \in 1..Len(stdout), j \in 1..Len(ReportLines) :
                    stdout[i].text = ReportLines[j].text

\* the whole report is the end of standard output
ReportComplete ==
    /\ Len(stdout) >= Len(ReportLines)
    /\ SubSeq(stdout, Len(stdout) - Len(ReportLines) + 1, Len(stdout)) = ReportLines

\* the last progress message printed before position n of standard output
ProgressBefore(n) ==
    LET idx == {j \in 1..(n - 1) : stdout[j].text \in ProgressTexts}
    IN  IF idx = {} THEN "none"
        ELSE stdout[CHOOSE j \in idx : \A k \in idx : k <= j].text

\* directory creation has completed in this run
Made == Has(trace, Ev("end", "makedirs"))

PastMakedirs == pc \notin {"preparing", "makedirs"}

(***************************************************************************)
(* C1.  If the compile invocation (swiftc) returns a non-zero status, the  *)
(* run does nothing more than print the error and exit with status 1: the  *)
(* signing invocation (codesign) is never started in that run.             *)
(***************************************************************************)
C1_CompileFailureNeverSigns ==
    ToolFailed("swiftc") =>
        /\ \A i \in 1..Len(trace) : trace[i].what # "codesign"
        /\ \A i \in 1..Len(spawned) : spawned[i].tool # "codesign"
        /\ pc \in {"check", "done"}
        /\ Exited => exitStatus = 1

C1_Witness ==
    /\ Exited
    /\ status["swiftc"] = <<2>>
    /\ exitStatus = 1
    /\ fs[SourcePath] = "file"

(***************************************************************************)
(* C2.  The external effects of a run occur in the order: directory        *)
(* creation, compile invocation, sign invocation; each begins only after   *)
(* the one before it has ended, and no sign invocation begins before a     *)
(* compile invocation has ended.                                           *)
(***************************************************************************)
EffectOrder ==
    << Ev("begin", "makedirs"), Ev("end", "makedirs"),
       Ev("begin", "swiftc"), Ev("end", "swiftc"),
       Ev("begin", "codesign"), Ev("end", "codesign") >>

C2_EffectsInOrder ==
    /\ IsPrefix(trace, EffectOrder)
    /\ \A i \in 1..Len(spawned) : spawned[i].tool = "codesign" => status["swiftc"] # <<>>

C2_Witness == trace = EffectOrder /\ Len(spawned) = 2

(***************************************************************************)
(* C3.  The exit status is 0 exactly when both the compile and the sign    *)
(* invocation returned 0; when either returned non-zero the exit status    *)
(* is 1, whatever the tool's own status was.                               *)
(***************************************************************************)
C3_ExitStatus ==
    Exited =>
        /\ exitStatus = 0 <=> (ToolSucceeded("swiftc") /\ ToolSucceeded("codesign"))
        /\ (ToolFailed("swiftc") \/ ToolFailed("codesign")) => exitStatus = 1

C3_Witness ==
    /\ Exited
    /\ status["swiftc"] = <<0>>
    /\ status["codesign"] = <<2>>
    /\ exitStatus = 1

(***************************************************************************)
(* C4.  If the compile invocation succeeds and the sign invocation returns *)
(* non-zero, then at exit the compiled binary is still at                  *)
(* build/com.lowdata.helper and is unsigned, the exit status is 1, and no  *)
(* line of the success report has been printed.                            *)
(***************************************************************************)
C4_SignFailureLeavesBinary ==
    (Exited /\ ToolSucceeded("swiftc") /\ ToolFailed("codesign")) =>
        /\ fs[<<"build", "/", "com.lowdata.helper">>] = "unsigned"
        /\ exitStatus = 1
        /\ ~ReportPrinted

C4_Witness ==
    /\ Exited
    /\ ToolSucceeded("swiftc")
    /\ ToolFailed("codesign")
    /\ fs0[ArtifactPath] = "signed"
    /\ fs[ArtifactPath] = "unsigned"

(***************************************************************************)
(* C5.  When both tools return 0 the run ends with exit status 0 and the   *)
(* whole report is printed; its "Helper location" line carries the path    *)
(* build/com.lowdata.helper, the path given to the compiler as its output  *)
(* and to the signer as its target.  No line of the report is printed in   *)
(* a run in which a tool failed.                                           *)
(***************************************************************************)
C5_ReportOnSuccess ==
    /\ (Exited /\ ToolSucceeded("swiftc") /\ ToolSucceeded("codesign")) =>
          /\ exitStatus = 0
          /\ ReportComplete
          /\ \E i \in 1..Len(stdout) :
                /\ stdout[i].text = "Helper location: "
                /\ stdout[i].arg = <<"build", "/", "com.lowdata.helper">>
                /\ Len(spawned) = 2
                /\ spawned[1].tool = "swiftc" /\ spawned[1].target = stdout[i].arg
                /\ spawned[2].tool = "codesign" /\ spawned[2].target = stdout[i].arg
    /\ ReportPrinted => ~ToolFailed("swiftc") /\ ~ToolFailed("codesign")

C5_Witness ==
    /\ Exited
    /\ ToolSucceeded("swiftc")
    /\ ToolSucceeded("codesign")
    /\ Has(stdout, Msg("Helper location: ", ArtifactPath))
    /\ fs[ArtifactPath] = "signed"

(***************************************************************************)
(* C6, as stated.  When a tool returns non-zero the script relays the      *)
(* tool's error text on its own standard error, and it writes on standard  *)
(* error in no other situation.                                            *)
(***************************************************************************)
\* what the statements of the script, not the interpreter, wrote on stderr
ScriptStderr ==
    SelectSeq(stderr, LAMBDA m : m.text # "Traceback (most recent call last):")

C6_AsStated ==
    /\ (Exited /\ (ToolFailed("swiftc") \/ ToolFailed("codesign"))
               /\ result.stderr # "") =>
          \E i \in 1..Len(stderr) : stderr[i].arg = <<result.stderr>>
    /\ ScriptStderr # <<>> => (ToolFailed("swiftc") \/ ToolFailed("codesign"))

(***************************************************************************)
(* C6, amended.  When a tool returns non-zero the script prints            *)
(* "Error: " followed by the tool's captured error text as the last line   *)
(* of its standard output and exits; run_command and main write nothing    *)
(* on standard error.  Standard error is written only by the interpreter,  *)
(* when directory creation raises, before any tool has been started.       *)
(***************************************************************************)
C6_ErrorRelayedOnStdout ==
    /\ (Exited /\ (ToolFailed("swiftc") \/ ToolFailed("codesign"))) =>
          /\ stdout[Len(stdout)] = [text |-> "Error: ", arg |-> <<result.stderr>>]
          /\ stderr = <<>>
    /\ stderr # <<>> =>
          /\ ~Made
          /\ spawned = <<>>
          /\ fs[BuildPath] \notin {"absent", "dir"}

C6_Witness ==
    /\ Exited
    /\ ToolFailed("codesign")
    /\ result.stderr = "diag"
    /\ result.stdout = "out"
    /\ Has(stdout, Msg("Error: ", <<"diag">>))
    /\ stderr = <<>>

(***************************************************************************)
(* C7.  Directory creation is idempotent and does not fail the run: from   *)
(* every state of the output path a previous run can leave (no directory,  *)
(* or the directory with or without an artifact in it) it succeeds, leaves *)
(* the directory present and its content untouched, and a second run in    *)
(* succession reaches the compile step exactly as the first did.           *)
(***************************************************************************)
C7_MakedirsIdempotent ==
    /\ (PastMakedirs /\ fs0[BuildPath] \in {"absent", "dir"}) =>
          /\ Made
          /\ fs[BuildPath] = "dir"
          /\ stderr = <<>>
    /\ pc = "building" =>
          /\ stdout = <<Msg(PreparingText, <<>>)>>
          /\ trace = <<Ev("begin", "makedirs"), Ev("end", "makedirs")>>
          /\ fs[ArtifactPath] = fs0[ArtifactPath]
          /\ fs0[BuildPath] = "dir" => fs = fs0
    /\ (run >= 2 /\ PastMakedirs) => (Made <=> history[run - 1].made)

C7_Witness ==
    /\ run = 2
    /\ pc = "building"
    /\ history[1].made
    /\ history[1].exit = 0
    /\ fs0[ArtifactPath] = "signed"

SpawnsOf(t) == Cardinality({i \in 1..Len(spawned) : spawned[i].tool = t})

\* error messages of the run: the "Error: ..." lines and the traceback
ErrorCount == Cardinality(ErrorLines) + Len(stderr)

C9_NoRetryState ==
    /\ \A t \in Tools : SpawnsOf(t) <= 1 /\ Len(status[t]) <= 1
    /\ Exited =>
          \/ exitStatus = 0 /\ ReportComplete /\ ErrorCount = 0
          \/ exitStatus = 1 /\ ErrorCount = 1 /\ ~ReportPrinted

C9_NoRetryAndTermination ==
    /\ []C9_NoRetryState
    /\ (~Exited) ~> Exited

C9_Witness ==
    /\ Exited
    /\ status["swiftc"] = <<1>>
    /\ Len(spawned) = 1
    /\ exitStatus = 1

(***************************************************************************)
(* C10.  When an error message is printed, the last progress message       *)
(* before it names the stage that failed: it is "Building helper tool..."  *)
(* exactly when the compile invocation failed and "Signing helper..."      *)
(* exactly when the sign invocation failed.  "Signing helper..." is never  *)
(* printed in a run whose compile invocation failed, and a run prints at   *)
(* most one error message.                                                 *)
(***************************************************************************)
C10_ProgressNamesFailedStage ==
    /\ Cardinality(ErrorLines) <= 1
    /\ \A i \in ErrorLines :
          /\ ProgressBefore(i) = "Building helper tool..." <=> ToolFailed("swiftc")
          /\ ProgressBefore(i) = "Signing helper..." <=> ToolFailed("codesign")
    /\ (Exited /\ exitStatus # 0) =>
          /\ ProgressBefore(Len(stdout) + 1) = "Building helper tool..."
                <=> ToolFailed("swiftc")
          /\ ProgressBefore(Len(stdout) + 1) = "Signing helper..."
                <=> ToolFailed("codesign")
    /\ ToolFailed("swiftc") => ~Has(stdout, Msg("Signing helper...", <<>>))

C10_Witness ==
    /\ ErrorLines # {}
    /\ ToolFailed("codesign")
    /\ ProgressBefore(Len(stdout)) = SigningText
====
